---------------------------- MODULE Spec2Model ----------------------------
(***************************************************************************)
(* A model of sslreminder (src/sslreminder.go): the process reads its      *)
(* configuration from the environment, then starts one check of the        *)
(* configured hosts' certificates at once and one more after every 24-hour *)
(* sleep.  Each check runs in its own goroutine: it collects the           *)
(* expiration of every host's leaf certificate, decides whether to remind, *)
(* and sends at most one mail.                                             *)
(*                                                                         *)
(* Strings are sequences of one-character strings, so that strings.Split   *)
(* and strconv.ParseInt are computed.  Instants are whole hours since      *)
(* 1970-01-01 00:00 UTC.                                                   *)
(***************************************************************************)
EXTENDS Integers, Sequences, FiniteSets, TLC

\* The number of checks main starts before the model stops it.
MaxCycles == 2

\* time.Sleep(24 * time.Hour): the sleep in hours, which is also one day.
HoursPerDay == 24

VARIABLES
    env,        \* the process environment: variable name -> string
    mainPc,     \* where main is
    config,     \* *config, once readConfig has returned
    sgConfig,   \* *sendgridConfig, once readSendgridConfig has returned
    fatal,      \* the key log.Fatalf exited on, or <<>>
    clock,      \* the wall clock, what time.Now() returns
    started,    \* the number of `go check(...)` statements main has executed
    cycles,     \* the check goroutines: 1..MaxCycles -> their locals
    fmtIn,      \* the arguments of mailBody, when it is studied alone
    fmtOut      \* the bodies mailBody has returned for fmtIn

vars == <<env, mainPc, config, sgConfig, fatal, clock, started, cycles, fmtIn, fmtOut>>

-----------------------------------------------------------------------------
(* Strings *)

\* strings.Split(s, ","): the pieces between the commas; one piece, s itself
\* (also when s is empty), when there is no comma.
RECURSIVE SplitFrom(_, _, _)
SplitFrom(s, k, piece) ==
    IF k > Len(s) THEN <<piece>>
    ELSE IF s[k] = "," THEN <<piece>> \o SplitFrom(s, k + 1, <<>>)
    ELSE SplitFrom(s, k + 1, Append(piece, s[k]))

Split(s) == SplitFrom(s, 1, <<>>)

Digits == <<"0", "1", "2", "3", "4", "5", "6", "7", "8", "9">>

IsDigit(ch) == \E d \in 1..10 : Digits[d] = ch

DigitValue(ch) == (CHOOSE d \in 1..10 : Digits[d] = ch) - 1

RECURSIVE ParseDigits(_, _, _)
ParseDigits(s, k, acc) ==
    IF k > Len(s) THEN acc
    ELSE ParseDigits(s, k + 1, acc * 10 + DigitValue(s[k]))

\* strconv.ParseInt(s, 0, 0) on an optionally signed decimal string; anything
\* else (the empty string, a letter) is a syntax error.
ParseInt(s) ==
    LET neg  == Len(s) > 0 /\ s[1] = "-"
        body == IF Len(s) > 0 /\ s[1] \in {"-", "+"} THEN SubSeq(s, 2, Len(s)) ELSE s
    IN  IF Len(body) = 0 \/ \E k \in 1..Len(body) : ~IsDigit(body[k])
        THEN [err |-> TRUE, val |-> 0]
        ELSE [err |-> FALSE,
              val |-> IF neg THEN 0 - ParseDigits(body, 1, 0) ELSE ParseDigits(body, 1, 0)]

-----------------------------------------------------------------------------
(* Time *)

\* The day number (days since 1970-01-01) of a civil date; a day outside the
\* month's range carries over, as in time.Date.
DaysFromCivil(y, m, d) ==
    LET yy  == IF m <= 2 THEN y - 1 ELSE y
        era == yy \div 400
        yoe == yy - era * 400
        mp  == IF m > 2 THEN m - 3 ELSE m + 9
        doy == (153 * mp + 2) \div 5 + d - 1
        doe == yoe * 365 + yoe \div 4 - yoe \div 100 + doy
    IN  era * 146097 + doe - 719468

\* The civil date of a day number.
CivilFromDays(z) ==
    LET zz  == z + 719468
        era == zz \div 146097
        doe == zz - era * 146097
        yoe == (doe - doe \div 1460 + doe \div 36524 - doe \div 146096) \div 365
        doy == doe - (365 * yoe + yoe \div 4 - yoe \div 100)
        mp  == (5 * doy + 2) \div 153
        d   == doy - (153 * mp + 2) \div 5 + 1
        m   == IF mp < 10 THEN mp + 3 ELSE mp - 9
    IN  [year |-> yoe + era * 400 + (IF m <= 2 THEN 1 ELSE 0), month |-> m, day |-> d]

\* The instant of a civil date and an hour of that day.
Date(y, m, d, hour) == DaysFromCivil(y, m, d) * HoursPerDay + hour

\* The days on which the process calls time.Now(): from the earliest start to
\* the latest start and one more day for every sleep.
NowDays == DaysFromCivil(2023, 12, 31)..(DaysFromCivil(2024, 1, 20) + MaxCycles)

\* The civil dates of those days, computed once.
CivilOfNowDay == [z \in NowDays |-> CivilFromDays(z)]

\* t.AddDate(0, 0, days): the date of t with its day raised by days, at t's
\* time of day, normalised by Date.
AddDate(t, days) ==
    LET c == CivilOfNowDay[t \div HoursPerDay]
    IN  Date(c.year, c.month, c.day + days, t % HoursPerDay)

\* t.Before(u)
Before(t, u) == t < u


-----------------------------------------------------------------------------
(* Configuration *)

\* The environments the process is started in.  <<>> is a variable that is
\* unset or empty: os.Getenv returns "" for both.
EnvChoices ==
    [HOSTS             : {<<>>, <<"a">>, <<"a", ",", "b">>, <<"a", ",", "a">>},
     EMAILS            : {<<>>, <<"x", ",", "y">>},
     SENDGRID_USERNAME : {<<>>, <<"u">>},
     SENDGRID_PASSWORD : {<<>>, <<"p">>},
     THRESHOLD_DAYS    : {<<>>, <<"1">>, <<"z">>},
     FROM              : {<<>>, <<"f">>}]

DEFAULT_THRESHOLD_DAYS == <<"3", "0">>

\* envMandatory without its log.Fatalf: an empty value is returned as it is.
envMandatoryNoExit(key) == [fatal |-> FALSE, value |-> env[key]]

\* envMandatory(key): the value, or the process exits when it is empty.
envMandatory(key) ==
    [fatal |-> Len(env[key]) = 0, value |-> env[key]]

\* envOptional(key, defaultValue)
envOptional(key, defaultValue) ==
    IF Len(env[key]) = 0 THEN defaultValue ELSE env[key]

NoConfig == [hosts |-> <<>>, emails |-> <<>>, thresholdDays |-> 0, from |-> <<>>]

NoSgConfig == [username |-> <<>>, password |-> <<>>]

\* readConfig(): the config, or the key the process exited on.  The threshold
\* is parsed first, then EMAILS is read, then HOSTS, then FROM.
readConfig ==
    LET thresholdString == envOptional("THRESHOLD_DAYS", DEFAULT_THRESHOLD_DAYS)
        threshold       == ParseInt(thresholdString)
        emailsEnv       == envMandatory("EMAILS")
        emails          == Split(emailsEnv.value)
        hostsEnv        == envMandatory("HOSTS")
    IN  IF threshold.err THEN [fatal |-> "THRESHOLD_DAYS", config |-> NoConfig]
        ELSE IF emailsEnv.fatal THEN [fatal |-> "EMAILS", config |-> NoConfig]
        ELSE IF hostsEnv.fatal THEN [fatal |-> "HOSTS", config |-> NoConfig]
        ELSE [fatal  |-> "",
              config |-> [hosts         |-> Split(hostsEnv.value),
                          emails        |-> emails,
                          thresholdDays |-> threshold.val,
                          from          |-> envOptional("FROM", emails[1])]]

\* readSendgridConfig()
readSendgridConfig ==
    LET username == envMandatory("SENDGRID_USERNAME")
        password == envMandatory("SENDGRID_PASSWORD")
    IN  IF username.fatal THEN [fatal |-> "SENDGRID_USERNAME", sgConfig |-> NoSgConfig]
        ELSE IF password.fatal THEN [fatal |-> "SENDGRID_PASSWORD", sgConfig |-> NoSgConfig]
        ELSE [fatal    |-> "",
              sgConfig |-> [username |-> username.value, password |-> password.value]]

-----------------------------------------------------------------------------
(* Certificate inspection *)

NoCert == [nil |-> TRUE, NotAfter |-> 0]

Cert(notAfter) == [nil |-> FALSE, NotAfter |-> notAfter]

\* The expirations the inspected hosts' leaf certificates carry.
ExpirationChoices ==
    {Date(2024, 1, 21, 0), Date(2024, 2, 19, 0), Date(2025, 1, 1, 0)}

\* What a host does when it is dialled: the dial fails, never returns, or
\* completes with a chain of peer certificates.
PeerChoices ==
    {[dial |-> "fail", certs |-> <<>>], [dial |-> "hang", certs |-> <<>>],
     [dial |-> "ok", certs |-> <<>>], [dial |-> "ok", certs |-> <<NoCert>>]}
    \cup {[dial |-> "ok", certs |-> <<Cert(e)>>] : e \in ExpirationChoices}
    \cup {[dial |-> "ok", certs |-> <<Cert(e), Cert(Date(2030, 1, 1, 0))>>] :
            e \in ExpirationChoices}

\* GetExpiration(host), once tls.Dial has returned.
GetExpiration(peer) ==
    IF peer.dial # "ok" THEN [expiration |-> 0, err |-> "dial"]
    ELSE IF Len(peer.certs) = 0 THEN [expiration |-> 0, err |-> "No PeerCertificates found"]
    ELSE IF peer.certs[1].nil THEN [expiration |-> 0, err |-> "First PeerCertificates is nil"]
    ELSE [expiration |-> peer.certs[1].NotAfter, err |-> ""]

-----------------------------------------------------------------------------
(* A check: the locals of one `check` goroutine *)

\* make(map[string]time.Time)
EmptyMap == [h \in {} |-> 0]

\* m[k] = v
MapPut(m, k, v) == [h \in DOMAIN m \cup {k} |-> IF h = k THEN v ELSE m[h]]

\* A goroutine that has not been started, and one that has returned (its
\* locals are gone).
NotStarted == [pc |-> "none", now |-> 0, i |-> 0, exMap |-> EmptyMap, log |-> <<>>,
               shouldRemind |-> FALSE, sent |-> <<>>]

Returned == [NotStarted EXCEPT !.pc = "done"]

\* check(config, sgConfig, now) at its entry, about to range over the hosts.
NewCheck(now) == [NotStarted EXCEPT !.pc = "collect", !.now = now, !.i = 1]

\* A check that has a step to take: it is neither unstarted, nor returned,
\* nor inside a tls.Dial that never returns.
Runnable(cy) == cy.pc \in {"collect", "decide", "remind", "finish"}

InProgress(cy) == cy.pc \in {"collect", "blocked", "decide", "remind", "finish"}

\* The loop body of GetExpirationMap with the error branch returning the map
\* at once instead of continuing with the next host.
InspectStepAbort(cy, hosts, peer) ==
    LET host == hosts[cy.i]
        r    == GetExpiration(peer)
        next == IF cy.i = Len(hosts) THEN "decide" ELSE "collect"
    IN  IF r.err # ""
        THEN [cy EXCEPT !.log = Append(@, [host |-> host, err |-> r.err, exp |-> 0]),
                        !.i = Len(hosts) + 1, !.pc = "decide"]
        ELSE [cy EXCEPT !.log = Append(@, [host |-> host, err |-> "", exp |-> r.expiration]),
                        !.exMap = MapPut(@, host, r.expiration),
                        !.i = @ + 1, !.pc = next]

\* The loop body of GetExpirationMap without its `continue`: the zero
\* expiration of a failed inspection is stored too.
InspectStepNoContinue(cy, hosts, peer) ==
    LET host == hosts[cy.i]
        r    == GetExpiration(peer)
        next == IF cy.i = Len(hosts) THEN "decide" ELSE "collect"
    IN  [cy EXCEPT !.log = Append(@, [host |-> host, err |-> r.err, exp |-> r.expiration]),
                   !.exMap = MapPut(@, host, r.expiration),
                   !.i = @ + 1, !.pc = next]

\* One iteration of GetExpirationMap's loop for a dial that returned: the
\* error or the expiration is logged, the expiration is stored, and after
\* the last host the map is returned to check.
InspectStep(cy, hosts, peer) ==
    LET host == hosts[cy.i]
        r    == GetExpiration(peer)
        next == IF cy.i = Len(hosts) THEN "decide" ELSE "collect"
    IN  IF r.err # ""
        THEN [cy EXCEPT !.log = Append(@, [host |-> host, err |-> r.err, exp |-> 0]),
                        !.i = @ + 1, !.pc = next]
        ELSE [cy EXCEPT !.log = Append(@, [host |-> host, err |-> "", exp |-> r.expiration]),
                        !.exMap = MapPut(@, host, r.expiration),
                        !.i = @ + 1, !.pc = next]

\* The inverted trigger: an expiration after the threshold reminds.
ShouldRemindInverted(exMap, threshold) ==
    \E h \in DOMAIN exMap : Before(threshold, exMap[h])

\* check's loop over exMap, from shouldRemind := false.
RECURSIVE ShouldRemindLoop(_, _, _, _)
ShouldRemindLoop(exMap, left, threshold, shouldRemind) ==
    IF left = {} THEN shouldRemind
    ELSE LET h == CHOOSE x \in left : TRUE
         IN  ShouldRemindLoop(exMap, left \ {h}, threshold,
                              IF Before(exMap[h], threshold) THEN TRUE ELSE shouldRemind)

ShouldRemind(exMap, threshold) ==
    ShouldRemindLoop(exMap, DOMAIN exMap, threshold, FALSE)

\* check between GetExpirationMap's return and the call of remind.
DecideStep(cy, cfg) ==
    LET threshold    == AddDate(cy.now, cfg.thresholdDays)
        shouldRemind == ShouldRemind(cy.exMap, threshold)
    IN  [cy EXCEPT !.shouldRemind = shouldRemind,
                   !.pc = IF shouldRemind THEN "remind" ELSE "finish"]

-----------------------------------------------------------------------------
(* The mail *)

HeaderSoon == [kind |-> "Certificates of following hosts expires soon:", host |-> <<>>, ex |-> 0]

Blank == [kind |-> "", host |-> <<>>, ex |-> 0]

HeaderOthers == [kind |-> "Others have enough time to be expired:", host |-> <<>>, ex |-> 0]

\* fmt.Sprintf("%v: %v\n", host, ex)
HostLine(host, ex) == [kind |-> "host", host |-> host, ex |-> ex]

\* The orders a range over a map with these keys can take.
RECURSIVE RangeOrders(_)
RangeOrders(keys) ==
    IF keys = {} THEN {<<>>}
    ELSE UNION {{<<h>> \o rest : rest \in RangeOrders(keys \ {h})} : h \in keys}

HostLines(m, order) == [k \in 1..Len(order) |-> HostLine(order[k], m[order[k]])]

\* mailBody with the second header written whether or not others is empty.
MailBodiesAlwaysOthers(cfg, now, exMap) ==
    LET threshold == AddDate(now, cfg.thresholdDays)
        soon      == {h \in DOMAIN exMap : Before(exMap[h], threshold)}
        others    == DOMAIN exMap \ soon
    IN  {<<HeaderSoon>> \o HostLines(exMap, so) \o <<Blank, HeaderOthers>> \o HostLines(exMap, ot) :
            so \in RangeOrders(soon), ot \in RangeOrders(others)}

\* mailBody(config, now, exMap): the bodies it can return, one for every
\* order in which the two maps are ranged over.
MailBodies(cfg, now, exMap) ==
    LET threshold == AddDate(now, cfg.thresholdDays)
        soon      == {h \in DOMAIN exMap : Before(exMap[h], threshold)}
        others    == DOMAIN exMap \ soon
    IN  {<<HeaderSoon>> \o HostLines(exMap, so)
            \o (IF Cardinality(others) > 0
                THEN <<Blank, HeaderOthers>> \o HostLines(exMap, ot) ELSE <<>>) :
            so \in RangeOrders(soon), ot \in RangeOrders(others)}

Subject == "REMINDER SSL certificate expiration"

\* remind with a failed send tried again.
RemindStepRetry(cy, cfg, body, sendErr) ==
    [cy EXCEPT !.sent = Append(@, [to |-> cfg.emails, from |-> cfg.from,
                                   subject |-> Subject, text |-> body, err |-> sendErr]),
               !.pc = IF sendErr THEN "remind" ELSE "finish"]

\* remind(config, sgConfig, now, exMap): the message is built and sent once;
\* the outcome of the send is logged.
RemindStep(cy, cfg, body, sendErr) ==
    [cy EXCEPT !.sent = Append(@, [to |-> cfg.emails, from |-> cfg.from,
                                   subject |-> Subject, text |-> body, err |-> sendErr]),
               !.pc = "finish"]

-----------------------------------------------------------------------------
(* The process *)

Cycles == 1..MaxCycles

\* The instants the process is started at.
StartChoices == {Date(2023, 12, 31, 12), Date(2024, 1, 20, 0)}

NoFmtIn == [now |-> 0, exMap |-> EmptyMap]

Init ==
    /\ env \in EnvChoices
    /\ mainPc = "readConfig"
    /\ config = NoConfig
    /\ sgConfig = NoSgConfig
    /\ fatal = ""
    /\ clock \in StartChoices
    /\ started = 0
    /\ cycles = [c \in Cycles |-> NotStarted]
    /\ fmtIn = NoFmtIn
    /\ fmtOut = {}

\* main: config := readConfig()
ReadConfig ==
    /\ mainPc = "readConfig"
    /\ LET r == readConfig
       IN  /\ fatal' = r.fatal
           /\ config' = r.config
           /\ mainPc' = IF r.fatal # "" THEN "exited" ELSE "readSendgridConfig"
    /\ UNCHANGED <<env, sgConfig, clock, started, cycles, fmtIn, fmtOut>>

\* main: sgConfig := readSendgridConfig()
ReadSendgridConfig ==
    /\ mainPc = "readSendgridConfig"
    /\ LET r == readSendgridConfig
       IN  /\ fatal' = r.fatal
           /\ sgConfig' = r.sgConfig
           /\ mainPc' = IF r.fatal # "" THEN "exited" ELSE "go"
    /\ UNCHANGED <<env, config, clock, started, cycles, fmtIn, fmtOut>>

\* main: go check(config, sgConfig, time.Now())
GoCheck ==
    /\ mainPc = "go"
    /\ started < MaxCycles
    /\ started' = started + 1
    /\ cycles' = [cycles EXCEPT ![started + 1] = NewCheck(clock)]
    /\ mainPc' = "sleep"
    /\ UNCHANGED <<env, config, sgConfig, fatal, clock, fmtIn, fmtOut>>

\* main calling check instead of starting it with `go`: the sleep begins
\* only when the check has returned.
SleepElapsedSync == \A c \in Cycles : ~InProgress(cycles[c])

\* When the 24 hours of the sleep are over.  main does not wait for the
\* checks it started; the steps of a check take far less than the sleep, so
\* the only check still in progress when it ends is one inside a tls.Dial
\* that has not returned.
SleepElapsed == \A c \in Cycles : ~Runnable(cycles[c])

\* main: time.Sleep(24 * time.Hour)
Sleep ==
    /\ mainPc = "sleep"
    /\ started < MaxCycles
    /\ SleepElapsed
    /\ clock' = clock + HoursPerDay
    /\ mainPc' = "go"
    /\ UNCHANGED <<env, config, sgConfig, fatal, started, cycles, fmtIn, fmtOut>>

\* GetExpirationMap: the next host is inspected and its dial returns.
Inspect(c) ==
    /\ cycles[c].pc = "collect"
    /\ \E peer \in PeerChoices :
          /\ peer.dial # "hang"
          /\ cycles' = [cycles EXCEPT ![c] = InspectStep(cycles[c], config.hosts, peer)]
    /\ UNCHANGED <<env, mainPc, config, sgConfig, fatal, clock, started, fmtIn, fmtOut>>

\* GetExpiration: tls.Dial is called without a deadline and the host never
\* completes the handshake, so the call does not return.
DialHangs(c) ==
    /\ cycles[c].pc = "collect"
    /\ \E peer \in PeerChoices : peer.dial = "hang"
    /\ cycles' = [cycles EXCEPT ![c].pc = "blocked"]
    /\ UNCHANGED <<env, mainPc, config, sgConfig, fatal, clock, started, fmtIn, fmtOut>>

\* check: the threshold and shouldRemind
Decide(c) ==
    /\ cycles[c].pc = "decide"
    /\ cycles' = [cycles EXCEPT ![c] = DecideStep(cycles[c], config)]
    /\ UNCHANGED <<env, mainPc, config, sgConfig, fatal, clock, started, fmtIn, fmtOut>>

\* check: remind(config, sgConfig, now, exMap)
Remind(c) ==
    /\ cycles[c].pc = "remind"
    /\ \E body \in MailBodies(config, cycles[c].now, cycles[c].exMap), sendErr \in BOOLEAN :
          cycles' = [cycles EXCEPT ![c] = RemindStep(cycles[c], config, body, sendErr)]
    /\ UNCHANGED <<env, mainPc, config, sgConfig, fatal, clock, started, fmtIn, fmtOut>>

\* check: "Check finished", and the goroutine returns.
Finish(c) ==
    /\ cycles[c].pc = "finish"
    /\ cycles' = [cycles EXCEPT ![c] = Returned]
    /\ UNCHANGED <<env, mainPc, config, sgConfig, fatal, clock, started, fmtIn, fmtOut>>

MainStep == ReadConfig \/ ReadSendgridConfig \/ GoCheck \/ Sleep

CheckStep(c) == Inspect(c) \/ DialHangs(c) \/ Decide(c) \/ Remind(c) \/ Finish(c)

Next == MainStep \/ \E c \in Cycles : CheckStep(c)

Spec == Init /\ [][Next]_vars

\* The runs studied for progress: the process is started at one instant in
\* an environment with the optional variables unset.
LiveInit ==
    /\ Init
    /\ env.THRESHOLD_DAYS = <<>>
    /\ env.FROM = <<>>
    /\ clock = Date(2024, 1, 20, 0)

\* The Go scheduler runs main and every goroutine that has a step to take.
LiveSpec ==
    LiveInit /\ [][Next]_vars /\ WF_vars(MainStep) /\ \A c \in Cycles : WF_vars(CheckStep(c))

-----------------------------------------------------------------------------
(* mailBody alone: called again and again on the same arguments *)

\* The snapshots GetExpirationMap can return for these hosts.
Snapshots(hosts) ==
    UNION {[S -> ExpirationChoices] : S \in SUBSET {hosts[k] : k \in 1..Len(hosts)}}

FmtInit ==
    /\ env \in {e \in EnvChoices :
                  /\ \A k \in {"HOSTS", "EMAILS", "SENDGRID_USERNAME", "SENDGRID_PASSWORD"} :
                        Len(e[k]) > 0
                  /\ ~ParseInt(IF Len(e.THRESHOLD_DAYS) = 0 THEN DEFAULT_THRESHOLD_DAYS
                               ELSE e.THRESHOLD_DAYS).err}
    /\ mainPc = "readConfig"
    /\ config = NoConfig
    /\ sgConfig = NoSgConfig
    /\ fatal = ""
    /\ clock \in StartChoices
    /\ started = 0
    /\ cycles = [c \in Cycles |-> NotStarted]
    /\ fmtIn = NoFmtIn
    /\ fmtOut = {}

\* The arguments are fixed: the configuration read, a now and a snapshot.
FmtArguments ==
    /\ mainPc = "go"
    /\ \E m \in Snapshots(config.hosts) :
          fmtIn' = [now |-> clock, exMap |-> m]
    /\ mainPc' = "mailBody"
    /\ UNCHANGED <<env, config, sgConfig, fatal, clock, started, cycles, fmtOut>>

\* mailBody(config, now, exMap) is called and returns a body.
FmtMailBody ==
    /\ mainPc = "mailBody"
    /\ \E body \in MailBodies(config, fmtIn.now, fmtIn.exMap) :
          fmtOut' = fmtOut \cup {body}
    /\ UNCHANGED <<env, mainPc, config, sgConfig, fatal, clock, started, cycles, fmtIn>>

FmtNext == ReadConfig \/ ReadSendgridConfig \/ FmtArguments \/ FmtMailBody

FmtSpec == FmtInit /\ [][FmtNext]_vars

-----------------------------------------------------------------------------
(* Properties *)

Mandatory == {"HOSTS", "EMAILS", "SENDGRID_USERNAME", "SENDGRID_PASSWORD"}

\* The instant `days` days of 24 hours after now.
DaysAfter(now, days) == now + days * HoursPerDay

\* The hosts of a snapshot that expire strictly before now + thresholdDays.
SoonOf(cy) ==
    {h \in DOMAIN cy.exMap : cy.exMap[h] < DaysAfter(cy.now, config.thresholdDays)}

\* The check has GetExpirationMap's result.
Collected(cy) == cy.pc \in {"decide", "remind", "finish"}

\* The check has made its reminder decision.
Decided(cy) == cy.pc \in {"remind", "finish"}

\* C1: once a check has decided, shouldRemind is true exactly when some
\* expiration of the snapshot is strictly before now + thresholdDays; so it
\* is false when every expiration is at or after it and when the snapshot is
\* empty.
C1_ShouldRemindIffSoon ==
    \A c \in Cycles :
        Decided(cycles[c]) =>
            /\ cycles[c].shouldRemind = (SoonOf(cycles[c]) # {})
            /\ (DOMAIN cycles[c].exMap = {} => ~cycles[c].shouldRemind)
            /\ (cycles[c].pc = "remind" => cycles[c].shouldRemind)

\* A check decided not to remind although one certificate expires exactly
\* at now + thresholdDays.
C1_Witness ==
    \E c \in Cycles :
        /\ cycles[c].pc = "finish"
        /\ ~cycles[c].shouldRemind
        /\ \E h \in DOMAIN cycles[c].exMap :
              cycles[c].exMap[h] = DaysAfter(cycles[c].now, config.thresholdDays)

\* C2: a check sends at most one mail, and only when shouldRemind is true,
\* that is when some expiration is before the threshold; a check whose
\* snapshot is empty or has no such expiration sends none, and a failed
\* send is not repeated.
C2_AtMostOneSendOnlyWhenReminding ==
    \A c \in Cycles :
        /\ Len(cycles[c].sent) <= 1
        /\ (Len(cycles[c].sent) = 1 =>
                cycles[c].shouldRemind /\ SoonOf(cycles[c]) # {})
        /\ (cycles[c].pc = "finish" /\ SoonOf(cycles[c]) = {} =>
                Len(cycles[c].sent) = 0)

\* A check is about to return after its one send failed.
C2_Witness ==
    \E c \in Cycles :
        /\ cycles[c].pc = "finish"
        /\ Len(cycles[c].sent) = 1
        /\ cycles[c].sent[1].err

\* C3 as stated: the snapshot of a check never holds an entry for a host an
\* inspection of which failed in that check, also when the host is listed
\* more than once.
C3_NoEntryForFailedHost ==
    \A c \in Cycles :
        \A k \in 1..Len(cycles[c].log) :
            cycles[c].log[k].err # "" =>
                cycles[c].log[k].host \notin DOMAIN cycles[c].exMap

\* C3 amended: the snapshot holds an entry for a host with a failed
\* inspection only when the host is listed more than once and another
\* inspection of it succeeded in that check; a host all of whose inspections
\* failed has no entry.
C3_NoEntryWithoutSuccess ==
    \A c \in Cycles :
        \A k \in 1..Len(cycles[c].log) :
            (cycles[c].log[k].err # "" /\ cycles[c].log[k].host \in DOMAIN cycles[c].exMap) =>
                \E j \in 1..Len(cycles[c].log) :
                    /\ j # k
                    /\ cycles[c].log[j].host = cycles[c].log[k].host
                    /\ cycles[c].log[j].err = ""

\* The collector has returned a snapshot that lacks a host whose inspection
\* failed and holds another host.
C3_Witness ==
    \E c \in Cycles :
        /\ cycles[c].pc = "decide"
        /\ DOMAIN cycles[c].exMap # {}
        /\ \E k \in 1..Len(cycles[c].log) :
              /\ cycles[c].log[k].err # ""
              /\ cycles[c].log[k].host \notin DOMAIN cycles[c].exMap

\* The last successful inspection of host h in a check's log.
LastSuccess(cy, h) ==
    CHOOSE k \in 1..Len(cy.log) :
        /\ cy.log[k].host = h /\ cy.log[k].err = ""
        /\ \A j \in (k + 1)..Len(cy.log) : ~(cy.log[j].host = h /\ cy.log[j].err = "")

\* C4: when the collector has returned, it has inspected every configured
\* host in order, whatever failed before; the keys of the snapshot are
\* exactly the hosts with a successful inspection, and each is mapped to the
\* expiration its (last) successful inspection returned.
C4_CollectsExactlySuccesses ==
    \A c \in Cycles :
        Collected(cycles[c]) =>
            /\ Len(cycles[c].log) = Len(config.hosts)
            /\ \A k \in 1..Len(config.hosts) : cycles[c].log[k].host = config.hosts[k]
            /\ DOMAIN cycles[c].exMap =
                  {cycles[c].log[k].host : k \in {j \in 1..Len(cycles[c].log) :
                                                     cycles[c].log[j].err = ""}}
            /\ \A h \in DOMAIN cycles[c].exMap :
                  cycles[c].exMap[h] = cycles[c].log[LastSuccess(cycles[c], h)].exp

\* The collector has returned after a failed inspection was followed by a
\* successful one.
C4_Witness ==
    \E c \in Cycles :
        /\ cycles[c].pc = "decide"
        /\ Len(cycles[c].log) >= 2
        /\ cycles[c].log[1].err # ""
        /\ cycles[c].log[2].err = ""
        /\ cycles[c].log[2].host \in DOMAIN cycles[c].exMap

\* The indices of the lines of body b that are host h's.
LinesOf(b, h) == {k \in 1..Len(b) : b[k].kind = "host" /\ b[k].host = h}

\* C5: in a body that was formatted, every host of the snapshot has exactly
\* one line, with its expiration; the hosts expiring strictly before
\* now + thresholdDays are the lines under the first header, the others the
\* lines under the second header, which is there, after a blank line,
\* exactly when there are others.
C5_BodyPartitionsSnapshot ==
    \A c \in Cycles :
        Len(cycles[c].sent) >= 1 =>
            LET b      == cycles[c].sent[1].text
                m      == cycles[c].exMap
                soon   == SoonOf(cycles[c])
                others == DOMAIN m \ soon
                second == {k \in 1..Len(b) : b[k] = HeaderOthers}
            IN  /\ b[1] = HeaderSoon
                /\ \A k \in 2..Len(b) : b[k] # HeaderSoon
                /\ \A h \in DOMAIN m : Cardinality(LinesOf(b, h)) = 1
                /\ \A k \in 1..Len(b) :
                      b[k].kind = "host" =>
                          b[k].host \in DOMAIN m /\ b[k].ex = m[b[k].host]
                /\ Len(b) = 1 + Cardinality(DOMAIN m) + (IF others # {} THEN 2 ELSE 0)
                /\ (second # {}) = (others # {})
                /\ \A p \in second :
                      /\ second = {p}
                      /\ b[p - 1] = Blank
                      /\ \A h \in DOMAIN m :
                            \A k \in LinesOf(b, h) : (k < p) = (h \in soon)

\* A body was formatted with a host under each header.
C5_Witness ==
    \E c \in Cycles :
        /\ Len(cycles[c].sent) = 1
        /\ SoonOf(cycles[c]) # {}
        /\ DOMAIN cycles[c].exMap \ SoonOf(cycles[c]) # {}
        /\ \E k \in 1..Len(cycles[c].sent[1].text) :
              cycles[c].sent[1].text[k] = HeaderOthers

\* Startup succeeds: every mandatory variable is set and the threshold parses.
StartupSucceeds ==
    /\ \A k \in Mandatory : Len(env[k]) > 0
    /\ ~ParseInt(envOptional("THRESHOLD_DAYS", DEFAULT_THRESHOLD_DAYS)).err

\* The number of sleeps main has completed.
Slept == IF mainPc = "go" THEN started ELSE started - 1

\* C6: when startup succeeds, every check up to the last, the first
\* included, is eventually started, whatever the earlier checks did; once a
\* check was started main never exits: it is sleeping or starting the next
\* check; and the n-th check's now is n - 1 sleeps of 24 hours after the
\* first's.
C6_EveryCycleStarts ==
    /\ \A n \in Cycles : StartupSucceeds ~> (started >= n)
    /\ [](started >= 1 => mainPc \in {"go", "sleep"})
    /\ [](\A c \in Cycles :
            InProgress(cycles[c]) =>
                cycles[c].now = clock - (Slept - (c - 1)) * HoursPerDay)

\* The last check was started while the first is still inside a dial that
\* never returned.
C6_Witness ==
    /\ started = MaxCycles
    /\ cycles[1].pc = "blocked"
    /\ InProgress(cycles[MaxCycles])

\* C7: mailBody returns the same body every time it is called on the same
\* configuration, now and snapshot.
C7_OneBodyPerArguments == Cardinality(fmtOut) <= 1

\* C8: every check that is started eventually returns.
C8_EveryCycleFinishes ==
    \A c \in Cycles : InProgress(cycles[c]) ~> (cycles[c].pc = "done")

\* C9: when a mandatory variable is unset or empty, main never gets past
\* startup: no check is started, so no host is inspected and no mail sent.
C9_NoCheckWithoutMandatory ==
    (\E k \in Mandatory : Len(env[k]) = 0) =>
        /\ started = 0
        /\ \A c \in Cycles : cycles[c] = NotStarted
        /\ mainPc \in {"readConfig", "readSendgridConfig", "exited"}

\* The process has exited on the one mandatory variable that is missing, the
\* last one read.
C9_Witness ==
    /\ mainPc = "exited"
    /\ fatal = "SENDGRID_PASSWORD"
    /\ Len(env["SENDGRID_PASSWORD"]) = 0
    /\ \A k \in Mandatory \ {"SENDGRID_PASSWORD"} : Len(env[k]) > 0

\* C10: at most one check is in progress at any time.
C10_AtMostOneCycleInProgress ==
    Cardinality({c \in Cycles : InProgress(cycles[c])}) <= 1

=============================================================================
